---- MODULE Spec2Model ----
(***************************************************************************)
(* Model of pandevice/predefined.py: class Predefined, the cache of the    *)
(* firewall's predefined services, applications and application            *)
(* containers.                                                             *)
(*                                                                         *)
(* The three dicts of the object are the state.  The device behind         *)
(* self.parent.xapi is the environment: each query is answered with any    *)
(* <result> the xpath admits, or the transport raises.  Every public       *)
(* method is one action; what a call did (arguments, queries with their    *)
(* answers, return value, raised error) is recorded in `last`.             *)
(***************************************************************************)
EXTENDS Integers, Sequences, FiniteSets, TLC

\* The fields of the records used below.  Every record lists its fields in
\* this order.
Fields ==
  [cls |-> "class of a parsed object",
   op |-> "method called",
   name |-> "entry name",
   names |-> "list of entry names",
   functions |-> "element has a <functions> child",
   body |-> "content of an entry",
   refresh_if_none |-> "argument",
   include_containers |-> "argument",
   tree |-> "subtree an xpath selects",
   entry |-> "entry filter of an xpath",
   xpath |-> "xpath of a query",
   call |-> "method and arguments",
   self |-> "the three dicts",
   device |-> "what the device holds for the name of a lookup that misses",
   nq |-> "number of queries",
   had |-> "the device held the name",
   ret |-> "return value",
   objs |-> "returned list",
   raised |-> "the error that left the call, if any",
   elm |-> "the <result> of a query",
   queries |-> "queries issued",
   calls |-> "invocations of the method, recursion included",
   dropped |-> "names that were keys before the call and are keys of no dict after",
   after_empty |-> "the call before was a refresh of the name answered with zero matches",
   service_objects |-> "dict",
   application_objects |-> "dict",
   application_container_objects |-> "dict",
   pc |-> "the statement a task is at",
   xml |-> "the elements a task has still to parse",
   log |-> "what a task's call did so far",
   kind |-> "kind of a logged event",
   task |-> "a task"]

\* The entry names the device may hold, in document order.
NameOrder == <<"a", "b">>
Names == {NameOrder[i] : i \in DOMAIN NameOrder}

\* Longest list of names handed to applications()/services().
MaxLen == 3
\* Longest run of identical successive lookups remembered in `hist`.
MaxHist == 2
\* Most calls one task makes when tasks interleave.
MaxCalls == 1

\* Python's None.
None == [cls |-> "NoneType", name |-> "", body |-> ""]

\* A dict is a function whose domain is its key set.
EmptyDict == [k \in {} |-> None]

\* dict.get(key, None)
DictGet(d, key) == IF key \in DOMAIN d THEN d[key] ELSE None

\* d[key] = obj
DictSet(d, key, obj) == [k \in (DOMAIN d) \cup {key} |-> IF k = key THEN obj ELSE d[k]]

VARIABLES
  service_objects,                 \* self.service_objects
  application_objects,             \* self.application_objects
  application_container_objects,   \* self.application_container_objects
  last,                            \* the call that led to this state
  hist,                            \* summaries of the current run of identical lookups
  tasks,                           \* interleaved use: each task's call and position
  writer                           \* interleaved use: per entry, the call that wrote it

vars == <<service_objects, application_objects, application_container_objects, last, hist,
          tasks, writer>>

\* The object's three dicts as one value.
Self == [service_objects |-> service_objects,
         application_objects |-> application_objects,
         application_container_objects |-> application_container_objects]

(***************************************************************************)
(* xpaths.  An xpath is kept as its subtree and its entry filter.          *)
(***************************************************************************)
ALL == "*"
SINGLE_APPLICATION_XPATH(name) == [tree |-> "application", entry |-> name]
SINGLE_SERVICE_XPATH(name) == [tree |-> "service", entry |-> name]
ALL_APPLICATION_XPATH == [tree |-> "application", entry |-> ALL]
ALL_SERVICE_XPATH == [tree |-> "service", entry |-> ALL]

(***************************************************************************)
(* The device.  An <entry> element is its name, whether it has a           *)
(* <functions> child, and its remaining content.  Under /config/predefined *)
(* the service subtree holds at most one entry per name; the elements      *)
(* whose tag contains "application" hold, per name, at most one entry      *)
(* without <functions> (application) and one with (application-container). *)
(***************************************************************************)
Element(name, functions, body) == [name |-> name, functions |-> functions, body |-> body]

\* The catalogue: every entry the device may hold at some time, per subtree.
\* The code never looks inside an entry beyond its name and its <functions>
\* child, so an entry's remaining content is one of two revisions.  "a" is a
\* service and an application in two revisions and also a container; "b" is
\* a plain second service and application.
Catalogue(tree) ==
  IF tree = "service"
    THEN {Element("a", FALSE, "p"), Element("a", FALSE, "q"), Element("b", FALSE, "p")}
    ELSE {Element("a", FALSE, "p"), Element("a", FALSE, "q"), Element("a", TRUE, "p"),
          Element("b", FALSE, "p")}

\* The entries an xpath selects from what the device holds.
Selects(xpath, elm) == xpath.entry \in {ALL, elm.name}

\* The places of a <result>, in document order: per name the plain entry,
\* then the container's.
Places ==
  [i \in 1..(2 * Len(NameOrder)) |->
     [name |-> NameOrder[((i - 1) \div 2) + 1], functions |-> (i % 2 = 0)]]

At(held, place) == {e \in held : e.name = place.name /\ e.functions = place.functions}

IsHeld(place_elms) == place_elms # {}

TheElement(place_elms) == CHOOSE e \in place_elms : TRUE

\* What the device may hold under a subtree: a part of the catalogue with at
\* most one entry per name and kind.
Holdings(tree) ==
  {held \in SUBSET Catalogue(tree) :
     \A e1, e2 \in held : (e1.name = e2.name /\ e1.functions = e2.functions) => e1 = e2}

\* The <result> of a query: the selected entries of what is held, in
\* document order.
Result(xpath, held) ==
  LET sel == {e \in held : Selects(xpath, e)}
      at == SelectSeq([i \in DOMAIN Places |-> At(sel, Places[i])], IsHeld)
  IN [i \in DOMAIN at |-> TheElement(at[i])]

\* Every <result> the device can answer the xpath with.
Results(xpath) == {Result(xpath, held) : held \in Holdings(xpath.tree)}

\* The error self.parent.xapi.get(xpath, retry_on_peer=False) may raise.
NoError == ""
XapiErrors == {"PanXapiError"}

\* _get_xml: the transport raises, or root.find("result") is returned.
_get_xml(xpath) ==
  {[xpath |-> xpath, raised |-> e, elm |-> <<>>] : e \in XapiErrors}
    \cup {[xpath |-> xpath, raised |-> NoError, elm |-> r] : r \in Results(xpath)}

(***************************************************************************)
(* The object model: obj = objects.X(); obj.refresh(xml=elm)               *)
(***************************************************************************)
Refreshed(cls, elm) == [cls |-> cls, name |-> elm.name, body |-> elm.body]

\* Mutant: the <functions> test is dropped, every element is an application.
ParseApplicationElement_AllApplications(self, elm) ==
  [self EXCEPT !.application_objects =
     DictSet(@, elm.name, Refreshed("ApplicationObject", elm))]

\* One pass of the loop of _parse_application_xml.
ParseApplicationElement(self, elm) ==
  IF elm.functions
    THEN [self EXCEPT !.application_container_objects =
            DictSet(@, elm.name, Refreshed("ApplicationContainer", elm))]
    ELSE [self EXCEPT !.application_objects =
            DictSet(@, elm.name, Refreshed("ApplicationObject", elm))]

RECURSIVE _parse_application_xml(_, _)
_parse_application_xml(self, xml) ==
  IF xml = <<>> THEN self
  ELSE _parse_application_xml(ParseApplicationElement(self, Head(xml)), Tail(xml))

\* Mutant: an entry that is cached already is not overwritten.
ParseServiceElement_KeepFirst(self, elm) ==
  IF elm.name \in DOMAIN self.service_objects THEN self
  ELSE [self EXCEPT !.service_objects =
          DictSet(@, elm.name, Refreshed("ServiceObject", elm))]

\* Mutant: the parsed service is stored in the application dict as well.
ParseServiceElement_AlsoApplications(self, elm) ==
  [self EXCEPT !.service_objects = DictSet(@, elm.name, Refreshed("ServiceObject", elm)),
               !.application_objects = DictSet(@, elm.name, Refreshed("ServiceObject", elm))]

\* Mutant: the parsed object is not stored.
ParseServiceElement_NoStore(self, elm) == self

\* One pass of the loop of _parse_service_xml.
ParseServiceElement(self, elm) ==
  [self EXCEPT !.service_objects = DictSet(@, elm.name, Refreshed("ServiceObject", elm))]

RECURSIVE _parse_service_xml(_, _)
_parse_service_xml(self, xml) ==
  IF xml = <<>> THEN self
  ELSE _parse_service_xml(ParseServiceElement(self, Head(xml)), Tail(xml))

(***************************************************************************)
(* Outcomes.  A method applied to the dicts `self` yields a set of         *)
(* outcomes, one per way the device can answer: the dicts afterwards, the  *)
(* return value, whether an error left the method, and the queries issued. *)
(***************************************************************************)
Outcome(self, ret, raised, queries) ==
  [self |-> self, ret |-> ret, objs |-> <<>>, raised |-> raised, queries |-> queries,
   calls |-> 1]

\* Mutant: an answer with zero matches evicts the name's entry.
FetchServices_EvictOnEmpty(self, xpath) ==
  {IF g.raised # NoError THEN Outcome(self, None, g.raised, <<g>>)
   ELSE IF g.elm = <<>>
     THEN Outcome([self EXCEPT !.service_objects =
                     [k \in (DOMAIN self.service_objects) \ {xpath.entry} |->
                        self.service_objects[k]]],
                  None, NoError, <<g>>)
   ELSE Outcome(_parse_service_xml(self, g.elm), None, NoError, <<g>>)
     : g \in _get_xml(xpath)}

\* xml = self._get_xml(xpath); self._parse_service_xml(xml)
FetchServices(self, xpath) ==
  {IF g.raised # NoError THEN Outcome(self, None, g.raised, <<g>>)
   ELSE Outcome(_parse_service_xml(self, g.elm), None, NoError, <<g>>)
     : g \in _get_xml(xpath)}

\* Mutant: the two application dicts are emptied when the transport raises.
FetchApplications_DropOnError(self, xpath) ==
  {IF g.raised # NoError
     THEN Outcome([self EXCEPT !.application_objects = EmptyDict,
                               !.application_container_objects = EmptyDict],
                  None, g.raised, <<g>>)
   ELSE Outcome(_parse_application_xml(self, g.elm), None, NoError, <<g>>)
     : g \in _get_xml(xpath)}

\* Mutant: the transport's error is caught and the call returns normally.
FetchApplications_Swallow(self, xpath) ==
  {IF g.raised # NoError THEN Outcome(self, None, NoError, <<g>>)
   ELSE Outcome(_parse_application_xml(self, g.elm), None, NoError, <<g>>)
     : g \in _get_xml(xpath)}

\* xml = self._get_xml(xpath); self._parse_application_xml(xml)
FetchApplications(self, xpath) ==
  {IF g.raised # NoError THEN Outcome(self, None, g.raised, <<g>>)
   ELSE Outcome(_parse_application_xml(self, g.elm), None, NoError, <<g>>)
     : g \in _get_xml(xpath)}

refresh_application(self, name) == FetchApplications(self, SINGLE_APPLICATION_XPATH(name))

refresh_service(self, name) == FetchServices(self, SINGLE_SERVICE_XPATH(name))

\* Mutant: the two application dicts are emptied before the bulk query.
refreshall_applications_Clearing(self) ==
  FetchApplications([self EXCEPT !.application_objects = EmptyDict,
                                 !.application_container_objects = EmptyDict],
                    ALL_APPLICATION_XPATH)

refreshall_applications(self) == FetchApplications(self, ALL_APPLICATION_XPATH)

refreshall_services(self) == FetchServices(self, ALL_SERVICE_XPATH)

\* first we clear all existing objects
Cleared == [service_objects |-> EmptyDict,
            application_objects |-> EmptyDict,
            application_container_objects |-> EmptyDict]

\* Mutant: a refreshall() that fails puts the dicts back as they were.
refreshall_Restoring(self) ==
  UNION {IF s.raised # NoError THEN {[s EXCEPT !.self = self]}
         ELSE {Outcome(IF a.raised # NoError THEN self ELSE a.self, None, a.raised,
                       s.queries \o a.queries)
                 : a \in refreshall_applications(s.self)}
           : s \in refreshall_services(Cleared)}

\* Mutant: the dicts are not cleared first.
refreshall_NoClear(self) ==
  UNION {IF s.raised # NoError THEN {s}
         ELSE {Outcome(a.self, None, a.raised, s.queries \o a.queries)
                 : a \in refreshall_applications(s.self)}
           : s \in refreshall_services(self)}

\* now we call the refresh methods
refreshall(self) ==
  UNION {IF s.raised # NoError THEN {s}
         ELSE {Outcome(a.self, None, a.raised, s.queries \o a.queries)
                 : a \in refreshall_applications(s.self)}
           : s \in refreshall_services(Cleared)}

\* Mutant: the container dict is searched whatever include_containers says.
LookupApplication_AlwaysContainers(self, name, include_containers) ==
  LET obj == DictGet(self.application_objects, name)
  IN IF obj = None THEN DictGet(self.application_container_objects, name) ELSE obj

\* Mutant: the container dict is never searched.
LookupApplication_NoContainers(self, name, include_containers) ==
  DictGet(self.application_objects, name)

\* obj = self.application_objects.get(name, None), then the container dict
LookupApplication(self, name, include_containers) ==
  LET obj == DictGet(self.application_objects, name)
  IN IF obj = None /\ include_containers
       THEN DictGet(self.application_container_objects, name)
       ELSE obj

\* A refresh followed by the recursive call; `again` is the recursive call's
\* outcomes on the refreshed dicts.
Refreshed2(r, again) ==
  IF r.raised # NoError THEN {r}
  ELSE {[t EXCEPT !.queries = r.queries \o @, !.calls = @ + 1] : t \in again}

\* Mutant: a lookup that is still empty after the refresh refreshes once more.
application_Retry(self, name, refresh_if_none, include_containers) ==
  LET obj == LookupApplication(self, name, include_containers)
      again(r) ==
        IF LookupApplication(r.self, name, include_containers) # None
          THEN {[Outcome(r.self, LookupApplication(r.self, name, include_containers),
                         NoError, r.queries) EXCEPT !.calls = 2]}
          ELSE {[Outcome(t.self, LookupApplication(t.self, name, include_containers),
                         t.raised, r.queries \o t.queries) EXCEPT !.calls = 3]
                  : t \in refresh_application(r.self, name)}
  IN IF obj = None /\ refresh_if_none
       THEN UNION {IF r.raised # NoError THEN {r} ELSE again(r)
                     : r \in refresh_application(self, name)}
       ELSE {Outcome(self, obj, NoError, <<>>)}

RECURSIVE application(_, _, _, _)
application(self, name, refresh_if_none, include_containers) ==
  LET obj == LookupApplication(self, name, include_containers)
  IN IF obj = None /\ refresh_if_none
       THEN UNION {Refreshed2(r, application(r.self, name, FALSE, include_containers))
                     : r \in refresh_application(self, name)}
       ELSE {Outcome(self, obj, NoError, <<>>)}

\* Mutant: the refresh does not wait for a miss.
service_RefreshFirst(self, name, refresh_if_none) ==
  IF refresh_if_none
    THEN UNION {Refreshed2(r, {Outcome(r.self, DictGet(r.self.service_objects, name),
                                       NoError, <<>>)})
                  : r \in refresh_service(self, name)}
    ELSE {Outcome(self, DictGet(self.service_objects, name), NoError, <<>>)}

RECURSIVE service(_, _, _)
service(self, name, refresh_if_none) ==
  LET obj == DictGet(self.service_objects, name)
  IN IF obj = None /\ refresh_if_none
       THEN UNION {Refreshed2(r, service(r.self, name, FALSE))
                     : r \in refresh_service(self, name)}
       ELSE {Outcome(self, obj, NoError, <<>>)}

\* set(names), and the orders in which `for name in set(names)` may visit it
NameSet(names) == {names[i] : i \in DOMAIN names}

Orders(S) ==
  {o \in [1..Cardinality(S) -> S] : \A i, j \in 1..Cardinality(S) : o[i] = o[j] => i = j}

\* Mutant: every lookup's result is appended, None included.
AppendIf_Always(objs, obj) == Append(objs, obj)

\* if obj: objs.append(obj)
AppendIf(objs, obj) == IF obj # None THEN Append(objs, obj) ELSE objs

\* The rest of a batch loop after one lookup `r`; `rest` gives the outcomes of
\* the remaining passes from the dicts and list that `r` leaves.
RECURSIVE applications_loop(_, _, _, _, _, _)
applications_loop(self, order, refresh_if_none, include_containers, objs, queries) ==
  IF order = <<>>
    THEN {[Outcome(self, None, NoError, queries) EXCEPT !.objs = objs]}
    ELSE UNION {IF r.raised # NoError
                  THEN {Outcome(r.self, None, r.raised, queries \o r.queries)}
                  ELSE applications_loop(r.self, Tail(order), refresh_if_none,
                                         include_containers, AppendIf(objs, r.ret),
                                         queries \o r.queries)
                  : r \in application(self, Head(order), refresh_if_none,
                                      include_containers)}

applications(self, names, refresh_if_none, include_containers) ==
  UNION {applications_loop(self, o, refresh_if_none, include_containers, <<>>, <<>>)
           : o \in Orders(NameSet(names))}

RECURSIVE services_loop(_, _, _, _, _)
services_loop(self, order, refresh_if_none, objs, queries) ==
  IF order = <<>>
    THEN {[Outcome(self, None, NoError, queries) EXCEPT !.objs = objs]}
    ELSE UNION {IF r.raised # NoError
                  THEN {Outcome(r.self, None, r.raised, queries \o r.queries)}
                  ELSE services_loop(r.self, Tail(order), refresh_if_none,
                                     AppendIf(objs, r.ret), queries \o r.queries)
                  : r \in service(self, Head(order), refresh_if_none)}

services(self, names, refresh_if_none) ==
  UNION {services_loop(self, o, refresh_if_none, <<>>, <<>>) : o \in Orders(NameSet(names))}

(***************************************************************************)
(* The state machine: one action per public method.                        *)
(***************************************************************************)
NoName == ""

Call(op, n, ns, rin, ic) ==
  [op |-> op, name |-> n, names |-> ns, refresh_if_none |-> rin, include_containers |-> ic]

NoCall == Call("__init__", NoName, <<>>, FALSE, FALSE)

\* No sample of the device was taken.
NoSample == [xpath |-> [tree |-> "", entry |-> ""], raised |-> NoError, elm |-> <<>>]

Keys(self) ==
  DOMAIN self.service_objects \cup DOMAIN self.application_objects
    \cup DOMAIN self.application_container_objects

\* The refresh method a lookup calls on a miss.
RefreshOf(op) == IF op = "application" THEN "refresh_application" ELSE "refresh_service"

\* The call recorded in `prev` was a single refresh for the name of the lookup
\* `call`, and the device answered it with zero matches.
AfterEmpty(prev, call) ==
  /\ call.op \in {"application", "service"}
  /\ prev.call.op = RefreshOf(call.op)
  /\ prev.call.name = call.name
  /\ prev.raised = NoError
  /\ prev.queries[1].elm = <<>>

Record(call, dev, before, r, after_empty) ==
  [call |-> call, device |-> dev, ret |-> r.ret, objs |-> r.objs, raised |-> r.raised,
   queries |-> r.queries, calls |-> r.calls, dropped |-> Keys(before) \ Keys(r.self),
   after_empty |-> after_empty]

Summary(dev, r) ==
  [nq |-> Len(r.queries), had |-> dev.elm # <<>>, ret |-> r.ret, raised |-> r.raised]

LastN(s, n) == IF Len(s) <= n THEN s ELSE SubSeq(s, Len(s) - n + 1, Len(s))

IsLookup(call) == call.op \in {"application", "service"}

\* The dicts and the record after `call` ended as `r`.
Return(call, dev, r) ==
  /\ service_objects' = r.self.service_objects
  /\ application_objects' = r.self.application_objects
  /\ application_container_objects' = r.self.application_container_objects
  /\ last' = Record(call, dev, Self, r, AfterEmpty(last, call))
  /\ hist' = IF ~IsLookup(call) THEN <<>>
             ELSE IF last.call = call THEN LastN(Append(hist, Summary(dev, r)), MaxHist)
             ELSE <<Summary(dev, r)>>
  /\ UNCHANGED <<tasks, writer>>

\* What the device holds for the name of a lookup, sampled when the lookup
\* misses the dicts: the answer a query for the name gets at that moment.
Sample(missed, xpath) == IF missed THEN _get_xml(xpath) ELSE {NoSample}

\* The samples a lookup that ended as `r` is consistent with: the answer to
\* its query if it issued one.
Sampled(r, missed, xpath) ==
  IF r.queries # <<>> THEN {r.queries[1]} ELSE Sample(missed, xpath)

\* The lists handed to a batch lookup.  The code reads `names` only through
\* set(names), so lists that differ in the order of their names are one input;
\* each is given with its names in document order.
NameLists ==
  {ns \in UNION {[1..n -> DOMAIN NameOrder] : n \in 0..MaxLen} :
     \A i \in DOMAIN ns : i > 1 => ns[i - 1] <= ns[i]}

Named(ns) == [i \in DOMAIN ns |-> NameOrder[ns[i]]]

(***************************************************************************)
(* Interleaved use.  The class takes no lock, so when two tasks share one  *)
(* object their calls interleave between statements.  A task's call runs   *)
(* statement by statement: a dict read, a dict assignment and the blocking *)
(* query are one step each.                                                *)
(***************************************************************************)
Tasks == {"t1", "t2"}

Idle == "idle"

Task(op, name, refresh_if_none, tree, ret, raised, queries, calls, pc, xml, log) ==
  [op |-> op, name |-> name, refresh_if_none |-> refresh_if_none, tree |-> tree,
   ret |-> ret, raised |-> raised, queries |-> queries, calls |-> calls, pc |-> pc,
   xml |-> xml, log |-> log]

NoTask == Task("__init__", NoName, FALSE, "", None, NoError, <<>>, 0, Idle, <<>>, <<>>)

\* The calls a task makes.
TaskCalls ==
  {Call(op, name, <<>>, FALSE, FALSE) :
     op \in {"refresh_application", "refresh_service"}, name \in Names}
    \cup {Call("service", name, <<>>, rin, FALSE) : name \in Names, rin \in BOOLEAN}
    \cup {Call("refreshall", NoName, <<>>, FALSE, FALSE)}

Init ==
  /\ tasks = [t \in Tasks |-> NoTask]
  /\ writer = Cleared
  /\ service_objects = EmptyDict
  /\ application_objects = EmptyDict
  /\ application_container_objects = EmptyDict
  /\ last = Record(NoCall, NoSample, Cleared, Outcome(Cleared, None, NoError, <<>>), FALSE)
  /\ hist = <<>>

RefreshApplication ==
  \E name \in Names : \E r \in refresh_application(Self, name) :
    Return(Call("refresh_application", name, <<>>, FALSE, FALSE), NoSample, r)

RefreshService ==
  \E name \in Names : \E r \in refresh_service(Self, name) :
    Return(Call("refresh_service", name, <<>>, FALSE, FALSE), NoSample, r)

RefreshallApplications ==
  \E r \in refreshall_applications(Self) :
    Return(Call("refreshall_applications", NoName, <<>>, FALSE, FALSE), NoSample, r)

RefreshallServices ==
  \E r \in refreshall_services(Self) :
    Return(Call("refreshall_services", NoName, <<>>, FALSE, FALSE), NoSample, r)

Refreshall ==
  \E r \in refreshall(Self) :
    Return(Call("refreshall", NoName, <<>>, FALSE, FALSE), NoSample, r)

Application ==
  \E name \in Names, refresh_if_none \in BOOLEAN, include_containers \in BOOLEAN :
    \E r \in application(Self, name, refresh_if_none, include_containers) :
      \E dev \in Sampled(r, LookupApplication(Self, name, include_containers) = None,
                         SINGLE_APPLICATION_XPATH(name)) :
        Return(Call("application", name, <<>>, refresh_if_none, include_containers), dev, r)

Service ==
  \E name \in Names, refresh_if_none \in BOOLEAN :
    \E r \in service(Self, name, refresh_if_none) :
      \E dev \in Sampled(r, DictGet(service_objects, name) = None,
                         SINGLE_SERVICE_XPATH(name)) :
        Return(Call("service", name, <<>>, refresh_if_none, FALSE), dev, r)

Applications ==
  \E ns \in NameLists, refresh_if_none \in BOOLEAN, include_containers \in BOOLEAN :
    \E r \in applications(Self, Named(ns), refresh_if_none, include_containers) :
      Return(Call("applications", NoName, Named(ns), refresh_if_none, include_containers),
             NoSample, r)

Services ==
  \E ns \in NameLists, refresh_if_none \in BOOLEAN :
    \E r \in services(Self, Named(ns), refresh_if_none) :
      Return(Call("services", NoName, Named(ns), refresh_if_none, FALSE), NoSample, r)

Next ==
  \/ RefreshApplication
  \/ RefreshService
  \/ RefreshallApplications
  \/ RefreshallServices
  \/ Refreshall
  \/ Application
  \/ Service
  \/ Applications
  \/ Services

Spec == Init /\ [][Next]_vars

NextRefresh ==
  \/ RefreshApplication
  \/ RefreshService
  \/ RefreshallApplications
  \/ RefreshallServices
  \/ Refreshall

SpecRefresh == Init /\ [][NextRefresh]_vars

NextService ==
  \/ RefreshService
  \/ RefreshallServices
  \/ Service
  \/ Services

SpecService == Init /\ [][NextService]_vars

NextApplication ==
  \/ RefreshApplication
  \/ RefreshallApplications
  \/ Application
  \/ Applications

SpecApplication == Init /\ [][NextApplication]_vars

NextLookup ==
  \/ RefreshApplication
  \/ RefreshService
  \/ RefreshallApplications
  \/ RefreshallServices
  \/ Refreshall
  \/ Application
  \/ Service

SpecLookup == Init /\ [][NextLookup]_vars

NextBatch ==
  \/ Applications
  \/ Services

SpecBatch == Init /\ [][NextBatch]_vars

(***************************************************************************)
(* The steps of a task.                                                    *)
(***************************************************************************)
\* Mutant: refreshall() refreshes the applications before the services.
FirstTree_ApplicationsFirst(op) ==
  IF op \in {"refresh_application", "refreshall"} THEN "application" ELSE "service"

\* The subtree a call refreshes first; refreshall() calls
\* refreshall_services() first.
FirstTree(op) == IF op = "refresh_application" THEN "application" ELSE "service"

OtherTree(tree) == IF tree = "service" THEN "application" ELSE "service"

\* The first statement of a call.
FirstPc(op) ==
  IF op = "service" THEN "get"
  ELSE IF op = "refreshall" THEN "clear application_objects"
  ELSE "query"

\* The xpath of the query a task is about to issue.
XPath(task) ==
  IF task.op = "refreshall"
    THEN IF task.tree = "service" THEN ALL_SERVICE_XPATH ELSE ALL_APPLICATION_XPATH
    ELSE IF task.tree = "service" THEN SINGLE_SERVICE_XPATH(task.name)
    ELSE SINGLE_APPLICATION_XPATH(task.name)

QueryEvent(tree) == IF tree = "service" THEN "query service" ELSE "query application"

ParsedEvent(tree) == IF tree = "service" THEN "parsed service" ELSE "parsed application"

\* The parser's loop has ended: where the call goes on.
AfterParse(task) ==
  LET done == [task EXCEPT !.xml = <<>>, !.log = Append(@, ParsedEvent(task.tree))]
  IN IF task.op = "service" THEN [done EXCEPT !.pc = "get_again"]
     ELSE IF task.op = "refreshall" /\ task.tree = FirstTree(task.op)
       THEN [done EXCEPT !.tree = OtherTree(task.tree), !.pc = "query"]
     ELSE [done EXCEPT !.pc = Idle]

\* The call that writes an entry: the task and the number of its call.
Stamp(t) == [calls |-> tasks[t].calls, task |-> t]

\* `writer` after task t stored the element.
Stamped(t, tree, elm) ==
  IF tree = "service"
    THEN [writer EXCEPT !.service_objects = DictSet(@, elm.name, Stamp(t))]
  ELSE IF elm.functions
    THEN [writer EXCEPT !.application_container_objects = DictSet(@, elm.name, Stamp(t))]
  ELSE [writer EXCEPT !.application_objects = DictSet(@, elm.name, Stamp(t))]

SetSelf(self) ==
  /\ service_objects' = self.service_objects
  /\ application_objects' = self.application_objects
  /\ application_container_objects' = self.application_container_objects

\* A task that is idle calls a method.
Start(t) ==
  /\ tasks[t].pc = Idle
  /\ tasks[t].calls < MaxCalls
  /\ \E c \in TaskCalls :
       tasks' = [tasks EXCEPT ![t] =
                   Task(c.op, c.name, c.refresh_if_none, FirstTree(c.op), None, NoError,
                        <<>>, tasks[t].calls + 1, FirstPc(c.op), <<>>, <<>>)]
  /\ UNCHANGED <<service_objects, application_objects, application_container_objects,
                 last, hist, writer>>

\* refreshall(): self.application_objects = {}
ClearApplications(t) ==
  /\ tasks[t].pc = "clear application_objects"
  /\ application_objects' = EmptyDict
  /\ writer' = [writer EXCEPT !.application_objects = EmptyDict]
  /\ tasks' = [tasks EXCEPT ![t].pc = "clear application_container_objects",
                            ![t].log = Append(@, "clear application_objects")]
  /\ UNCHANGED <<service_objects, application_container_objects, last, hist>>

\* refreshall(): self.application_container_objects = {}
ClearContainers(t) ==
  /\ tasks[t].pc = "clear application_container_objects"
  /\ application_container_objects' = EmptyDict
  /\ writer' = [writer EXCEPT !.application_container_objects = EmptyDict]
  /\ tasks' = [tasks EXCEPT ![t].pc = "clear service_objects",
                            ![t].log = Append(@, "clear application_container_objects")]
  /\ UNCHANGED <<service_objects, application_objects, last, hist>>

\* refreshall(): self.service_objects = {}
ClearServices(t) ==
  /\ tasks[t].pc = "clear service_objects"
  /\ service_objects' = EmptyDict
  /\ writer' = [writer EXCEPT !.service_objects = EmptyDict]
  /\ tasks' = [tasks EXCEPT ![t].pc = "query",
                            ![t].log = Append(@, "clear service_objects")]
  /\ UNCHANGED <<application_objects, application_container_objects, last, hist>>

\* service(): obj = self.service_objects.get(name, None), in the call and in
\* the recursive call.
Get(t) ==
  /\ tasks[t].pc \in {"get", "get_again"}
  /\ LET task == tasks[t]
         obj == DictGet(service_objects, task.name)
     IN tasks' = [tasks EXCEPT ![t] =
                    IF task.pc = "get" /\ obj = None /\ task.refresh_if_none
                      THEN [task EXCEPT !.pc = "query"]
                      ELSE [task EXCEPT !.ret = obj, !.pc = Idle]]
  /\ UNCHANGED <<service_objects, application_objects, application_container_objects,
                 last, hist, writer>>

\* _get_xml: the query is issued and answered, or the transport raises.
Query(t) ==
  /\ tasks[t].pc = "query"
  /\ LET task == [tasks[t] EXCEPT !.log = Append(@, QueryEvent(tasks[t].tree))]
     IN \E g \in _get_xml(XPath(task)) :
          tasks' = [tasks EXCEPT ![t] =
                      IF g.raised # NoError
                        THEN [task EXCEPT !.raised = g.raised, !.queries = Append(@, g),
                                          !.pc = Idle]
                      ELSE IF g.elm = <<>>
                        THEN AfterParse([task EXCEPT !.queries = Append(@, g)])
                      ELSE [task EXCEPT !.queries = Append(@, g), !.xml = g.elm,
                                        !.pc = "parse"]]
  /\ UNCHANGED <<service_objects, application_objects, application_container_objects,
                 last, hist, writer>>

\* One pass of the parser's loop: the next element is stored.
Parse(t) ==
  /\ tasks[t].pc = "parse"
  /\ LET task == tasks[t]
         elm == Head(task.xml)
         rest == [task EXCEPT !.xml = Tail(task.xml)]
     IN /\ SetSelf(IF task.tree = "service" THEN ParseServiceElement(Self, elm)
                   ELSE ParseApplicationElement(Self, elm))
        /\ writer' = Stamped(t, task.tree, elm)
        /\ tasks' = [tasks EXCEPT ![t] = IF rest.xml = <<>> THEN AfterParse(rest) ELSE rest]
  /\ UNCHANGED <<last, hist>>

NextTasks ==
  \E t \in Tasks :
    \/ Start(t)
    \/ ClearApplications(t)
    \/ ClearContainers(t)
    \/ ClearServices(t)
    \/ Get(t)
    \/ Query(t)
    \/ Parse(t)

SpecTasks == Init /\ [][NextTasks]_vars

(***************************************************************************)
(* The claims.                                                             *)
(***************************************************************************)
IsObject(obj, cls, name) == obj.cls = cls /\ obj.name = name

\* The elements of a <result> as a set.
Elements(elm) == {elm[i] : i \in DOMAIN elm}

\* The queries a call issued, as a set.
Queries(rec) == {rec.queries[i] : i \in DOMAIN rec.queries}

\* The dict a <result> amounts to: an object of class cls under the name of
\* each element whose <functions> child is present (fn) or missing (~fn).
DictOf(elm, fn, cls) ==
  [n \in {e.name : e \in {x \in Elements(elm) : x.functions = fn}} |->
     [cls |-> cls, name |-> n,
      body |-> (CHOOSE e \in Elements(elm) : e.name = n /\ e.functions = fn).body]]

\* C1: when a service is not cached and the device holds it, of two
\* successive service(X) calls (refresh_if_none=True) the first issues the one
\* query and returns the object for X, the second issues none and returns the
\* same object.
C1_PullThroughIdempotence ==
  (last.call.op = "service" /\ last.call.refresh_if_none /\ Len(hist) >= 2) =>
    LET first == hist[Len(hist) - 1]
        second == hist[Len(hist)]
    IN first.had =>
         /\ first.raised = NoError /\ second.raised = NoError
         /\ IsObject(first.ret, "ServiceObject", last.call.name)
         /\ second.ret = first.ret
         /\ second.nq = 0
         /\ first.nq + second.nq <= 1

C1_Witness ==
  /\ last.call.op = "service" /\ last.call.refresh_if_none
  /\ Len(hist) >= 2
  /\ hist[Len(hist) - 1].had /\ hist[Len(hist) - 1].nq = 1
  /\ hist[Len(hist)].nq = 0 /\ hist[Len(hist)].ret # None

\* The lookup of lines 190-192 finds nothing in the dicts as they are.
NotCached(name, include_containers) ==
  /\ name \notin DOMAIN application_objects
  /\ include_containers => name \notin DOMAIN application_container_objects

\* C2: application(name, refresh_if_none=True) for a name that is not cached,
\* with the device answering every query with an empty <result>, issues
\* exactly one query, calls itself once, and returns None.
C2_SingleRetryCap ==
  [][(/\ last'.call.op = "application" /\ last'.call.refresh_if_none
      /\ NotCached(last'.call.name, last'.call.include_containers)
      /\ \A q \in Queries(last') : q.raised = NoError /\ q.elm = <<>>)
     => /\ Len(last'.queries) = 1
        /\ last'.calls = 2
        /\ last'.raised = NoError
        /\ last'.ret = None]_vars

C2_Witness ==
  /\ last.call.op = "application" /\ last.call.refresh_if_none
  /\ Len(last.queries) = 1 /\ last.queries[1].raised = NoError /\ last.queries[1].elm = <<>>
  /\ last.calls = 2 /\ last.ret = None /\ last.raised = NoError

\* The names a call's answered queries returned.
Answered(rec) == {e.name : e \in UNION {Elements(q.elm) : q \in Queries(rec)}}

\* C3: after a refreshall() that raised nothing, the service dict is the bulk
\* services <result>, the application and container dicts are the bulk
\* applications <result> split by <functions>, and a name that was a key before
\* and is in neither <result> is a key of no dict.
C3_FullRefreshReplaces ==
  [][(last'.call.op = "refreshall" /\ last'.raised = NoError)
     => /\ Len(last'.queries) = 2
        /\ last'.queries[1].xpath = ALL_SERVICE_XPATH
        /\ last'.queries[2].xpath = ALL_APPLICATION_XPATH
        /\ service_objects' = DictOf(last'.queries[1].elm, FALSE, "ServiceObject")
        /\ application_objects' = DictOf(last'.queries[2].elm, FALSE, "ApplicationObject")
        /\ application_container_objects'
             = DictOf(last'.queries[2].elm, TRUE, "ApplicationContainer")
        /\ \A n \in Keys(Self) :
             n \notin Answered(last') =>
               /\ n \notin DOMAIN service_objects'
               /\ n \notin DOMAIN application_objects'
               /\ n \notin DOMAIN application_container_objects']_vars

C3_Witness ==
  /\ last.call.op = "refreshall" /\ last.raised = NoError
  /\ last.dropped # {}
  /\ Keys(Self) # {}

\* The elements the application queries of a call returned.
ApplicationElements(rec) ==
  UNION {Elements(q.elm) : q \in {x \in Queries(rec) : x.xpath.tree = "application"}}

\* C4: every element an application query returns is stored under its name in
\* the container dict if it has a <functions> child and in the application
\* dict if it has none, and the other dict's entry of that name is not
\* written on its account.
C4_ContainerClassification ==
  [][\A e \in ApplicationElements(last') :
       LET other == {x \in ApplicationElements(last') :
                       x.name = e.name /\ x.functions # e.functions}
       IN IF e.functions
            THEN /\ e.name \in DOMAIN application_container_objects'
                 /\ application_container_objects'[e.name]
                      = [cls |-> "ApplicationContainer", name |-> e.name, body |-> e.body]
                 /\ other = {} =>
                      DictGet(application_objects', e.name)
                        = DictGet(application_objects, e.name)
            ELSE /\ e.name \in DOMAIN application_objects'
                 /\ application_objects'[e.name]
                      = [cls |-> "ApplicationObject", name |-> e.name, body |-> e.body]
                 /\ other = {} =>
                      DictGet(application_container_objects', e.name)
                        = DictGet(application_container_objects, e.name)]_vars

C4_Witness ==
  /\ last.call.op = "refresh_application" /\ last.raised = NoError
  /\ Len(last.queries[1].elm) = 1 /\ last.queries[1].elm[1].functions
  /\ last.call.name \in DOMAIN application_container_objects
  /\ last.call.name \notin DOMAIN application_objects

\* The device's answer for the name of the lookup `rec` has an entry for the
\* name with (fn) or without (~fn) a <functions> child.
Held(rec, fn) ==
  \E e \in Elements(rec.device.elm) : e.name = rec.call.name /\ e.functions = fn

\* The lookup `rec` is an application(name) for a name that exists only as a
\* container: it is in the container dict or the device holds its container,
\* it is not in the application dict and the device holds no application of
\* that name; the transport raises nothing.
OnlyAsContainer(rec) ==
  /\ rec.call.op = "application"
  /\ rec.call.name \notin DOMAIN application_objects
  /\ rec.call.name \in DOMAIN application_container_objects \/ Held(rec, TRUE)
  /\ ~Held(rec, FALSE)
  /\ rec.device.raised = NoError
  /\ \A q \in Queries(rec) : q.raised = NoError

\* C5 as stated: for a name that exists only as a container,
\* application(name, include_containers=True) returns the container and
\* application(name, include_containers=False) returns None, for both values
\* of refresh_if_none.
C5_Original ==
  [][OnlyAsContainer(last') =>
       /\ last'.raised = NoError
       /\ IF last'.call.include_containers
            THEN IsObject(last'.ret, "ApplicationContainer", last'.call.name)
            ELSE last'.ret = None]_vars

\* C5 (amended): for a name that exists only as a container,
\* application(name, include_containers=True) returns the cached container
\* without a query when the name is in the container dict; when it is not, it
\* returns the device's container after one query if refresh_if_none is True,
\* and None without a query if refresh_if_none is False.
\* application(name, include_containers=False) returns None for both values
\* of refresh_if_none.
C5_ContainerFallback ==
  [][OnlyAsContainer(last') =>
       LET name == last'.call.name
       IN /\ last'.raised = NoError
          /\ ~last'.call.include_containers => last'.ret = None
          /\ last'.call.include_containers =>
               IF name \in DOMAIN application_container_objects
                 THEN /\ last'.ret = application_container_objects[name]
                      /\ IsObject(last'.ret, "ApplicationContainer", name)
                      /\ last'.queries = <<>>
               ELSE IF last'.call.refresh_if_none
                 THEN /\ IsObject(last'.ret, "ApplicationContainer", name)
                      /\ \E e \in Elements(last'.device.elm) :
                           e.functions /\ last'.ret.body = e.body
                      /\ Len(last'.queries) = 1
               ELSE /\ last'.ret = None
                    /\ last'.queries = <<>>]_vars

C5_Witness ==
  /\ last.call.op = "application"
  /\ last.call.include_containers /\ last.call.refresh_if_none
  /\ Len(last.queries) = 1 /\ last.raised = NoError
  /\ Held(last, TRUE) /\ ~Held(last, FALSE)
  /\ IsObject(last.ret, "ApplicationContainer", last.call.name)
  /\ last.call.name \notin DOMAIN application_objects

\* The names of the objects of a returned list.
ObjNames(objs) == {objs[i].name : i \in DOMAIN objs}

\* The entry of the dicts a batch lookup searches for the name, None if none.
Cached(op, n, include_containers) ==
  IF op = "services" THEN DictGet(service_objects, n)
  ELSE IF n \in DOMAIN application_objects THEN application_objects[n]
  ELSE IF include_containers THEN DictGet(application_container_objects, n)
  ELSE None

\* The answer to a query of a batch lookup has an entry the lookup accepts.
Matches(call, q) ==
  \E e \in Elements(q.elm) :
    call.op = "services" \/ ~e.functions \/ call.include_containers

\* C6: services(names) and applications(names) raise only what the transport
\* raised; a query answered with zero matches fails nothing.  The returned list
\* holds exactly one object for each distinct requested name that is found,
\* nothing for a name that is not, and is no longer than the number of
\* distinct names.
C6_BatchDedupBestEffort ==
  (last.call.op \in {"services", "applications"}) =>
    LET req == NameSet(last.call.names)
        found(n) == Cached(last.call.op, n, last.call.include_containers)
        hits == {n \in req : found(n) # None}
    IN /\ last.raised # NoError => \E q \in Queries(last) : q.raised = last.raised
       /\ (\A q \in Queries(last) : q.raised = NoError) => last.raised = NoError
       /\ last.raised = NoError =>
            /\ Len(last.objs) = Cardinality(hits)
            /\ Len(last.objs) <= Cardinality(req)
            /\ \A n \in hits : \E i \in DOMAIN last.objs : last.objs[i] = found(n)
            /\ \A i, j \in DOMAIN last.objs : last.objs[i].name = last.objs[j].name => i = j
            /\ ObjNames(last.objs) = hits
            /\ \A q \in Queries(last) :
                 /\ q.xpath.entry \in req
                 /\ Matches(last.call, q) <=> q.xpath.entry \in ObjNames(last.objs)

C6_Witness ==
  /\ last.call.op = "services" /\ last.call.names = <<"a", "a", "b">>
  /\ last.raised = NoError
  /\ Len(last.objs) = 1 /\ IsObject(last.objs[1], "ServiceObject", "a")
  /\ \E q \in Queries(last) : q.xpath.entry = "b" /\ q.elm = <<>>
  /\ \E q \in Queries(last) : q.xpath.entry = "a" /\ q.elm # <<>>

\* C7 as stated: refresh_application(name) raises when the device's answer
\* has no application and no container of that name.
C7_NotFoundRaises ==
  (/\ last.call.op = "refresh_application"
   /\ Len(last.queries) = 1
   /\ last.queries[1].raised = NoError
   /\ last.queries[1].elm = <<>>)
    => last.raised # NoError

\* C8: an error the transport raises during any of the nine methods ends the
\* call: no query follows it, the call raises that same error, and nothing is
\* returned.  A call raises nothing else.
C8_TransportErrorPropagates ==
  /\ \A i \in DOMAIN last.queries :
       last.queries[i].raised # NoError =>
         /\ i = Len(last.queries)
         /\ last.raised = last.queries[i].raised
         /\ last.ret = None
         /\ last.objs = <<>>
  /\ last.raised # NoError =>
       /\ last.queries # <<>>
       /\ last.queries[Len(last.queries)].raised = last.raised

C8_Witness ==
  /\ last.call.op = "applications"
  /\ Len(last.queries) = 2
  /\ last.queries[1].raised = NoError
  /\ last.queries[2].raised \in XapiErrors
  /\ last.raised = last.queries[2].raised

\* The step is a single refresh that the device answers with zero matches.
EmptyRefresh(rec) ==
  /\ rec.call.op \in {"refresh_application", "refresh_service"}
  /\ Len(rec.queries) = 1
  /\ rec.queries[1].raised = NoError
  /\ rec.queries[1].elm = <<>>

\* The lookup `rec` directly follows such a refresh of its name and
\* refreshes nothing itself.
LookupAfterEmpty(rec) ==
  /\ rec.call.op \in {"application", "service"}
  /\ rec.after_empty
  /\ ~rec.call.refresh_if_none

\* C9 as stated: a single refresh answered with zero matches raises nothing
\* and changes none of the dicts, and the lookup of the name that follows
\* returns None, whatever the dicts held.
C9_Original ==
  [][/\ EmptyRefresh(last') =>
          /\ last'.raised = NoError
          /\ UNCHANGED <<service_objects, application_objects, application_container_objects>>
     /\ LookupAfterEmpty(last') => last'.ret = None]_vars

\* C9 (amended): a single refresh answered with zero matches raises nothing
\* and changes none of the dicts; the lookup of the name that follows returns
\* None if the name was not cached before the refresh, and otherwise returns
\* the entry cached before it.
C9_SoftNotFound ==
  [][/\ EmptyRefresh(last') =>
          /\ last'.raised = NoError
          /\ UNCHANGED <<service_objects, application_objects, application_container_objects>>
     /\ LookupAfterEmpty(last') =>
          /\ last'.raised = NoError
          /\ last'.queries = <<>>
          /\ last'.ret = Cached(IF last'.call.op = "service" THEN "services"
                                                             ELSE "applications",
                                last'.call.name, last'.call.include_containers)]_vars

C9_Witness ==
  /\ last.call.op = "service" /\ last.after_empty /\ ~last.call.refresh_if_none
  /\ last.ret # None
  /\ last.call.name \in DOMAIN service_objects

\* C10: refreshall_applications() and refreshall_services() remove no key
\* from any dict, and an entry whose name is not in the device's answer is
\* the same after the call.
C10_BulkRefreshUpserts ==
  [][(last'.call.op \in {"refreshall_applications", "refreshall_services"}) =>
       /\ DOMAIN service_objects \subseteq DOMAIN service_objects'
       /\ DOMAIN application_objects \subseteq DOMAIN application_objects'
       /\ DOMAIN application_container_objects \subseteq DOMAIN application_container_objects'
       /\ \A n \in Names \ Answered(last') :
            /\ DictGet(service_objects', n) = DictGet(service_objects, n)
            /\ DictGet(application_objects', n) = DictGet(application_objects, n)
            /\ DictGet(application_container_objects', n)
                 = DictGet(application_container_objects, n)]_vars

C10_Witness ==
  /\ last.call.op = "refreshall_applications" /\ last.raised = NoError
  /\ \E n \in DOMAIN application_objects \cup DOMAIN application_container_objects :
       n \notin Answered(last)
  /\ last.dropped = {}

\* The entry the dicts as they are hold for the single lookup `call`.
Hit(call) ==
  Cached(IF call.op = "service" THEN "services" ELSE "applications",
         call.name, call.include_containers)

\* C12: a single lookup that finds the name in the dicts, or that is called
\* with refresh_if_none=False, issues no query and leaves the three dicts as
\* they were; a single lookup never issues more than one query.
C12_LookupFrame ==
  [][(last'.call.op \in {"application", "service"}) =>
       /\ Len(last'.queries) <= 1
       /\ (Hit(last'.call) # None \/ ~last'.call.refresh_if_none) =>
            /\ last'.queries = <<>>
            /\ last'.raised = NoError
            /\ last'.ret = Hit(last'.call)
            /\ UNCHANGED <<service_objects, application_objects,
                           application_container_objects>>]_vars

C12_Witness ==
  /\ last.call.op = "service" /\ last.call.refresh_if_none
  /\ last.queries = <<>> /\ last.ret # None
  /\ Len(hist) >= 2 /\ hist[Len(hist) - 1].nq = 1

\* The object the device returned to the refresh `rec`, when its answer is a
\* single entry.
Returned(rec) ==
  LET e == rec.queries[1].elm[1]
  IN [cls |-> IF rec.call.op = "refresh_service" THEN "ServiceObject"
              ELSE IF e.functions THEN "ApplicationContainer" ELSE "ApplicationObject",
      name |-> e.name, body |-> e.body]

\* The step is a lookup (for applications with include_containers=True) of
\* the name that the call before refreshed, and that refresh was answered
\* with one entry.
LookupAfterRefresh(prev, rec) ==
  /\ prev.call.op \in {"refresh_application", "refresh_service"}
  /\ prev.raised = NoError
  /\ Len(prev.queries[1].elm) = 1
  /\ rec.call.op \in {"application", "service"}
  /\ prev.call.op = RefreshOf(rec.call.op)
  /\ rec.call.name = prev.call.name
  /\ rec.call.op = "application" => rec.call.include_containers

\* C13 as stated: after a refresh of a name that the device answered with the
\* object v, the lookup of the name returns v, also when v's classification
\* differs from that of the entry cached before.
C13_ReplaceOnRefresh ==
  [][LookupAfterRefresh(last, last') => last'.ret = Returned(last)]_vars

\* C15: when the transport raises during refresh_application,
\* refresh_service, refreshall_applications or refreshall_services, called
\* directly or by application()/service() on a miss, the three dicts are as
\* they were before the call: the one query precedes every write.
C15_FailedRefreshChangesNothing ==
  [][(/\ last'.call.op \in {"refresh_application", "refresh_service",
                             "refreshall_applications", "refreshall_services",
                             "application", "service"}
      /\ last'.raised # NoError)
     => /\ Len(last'.queries) = 1
        /\ last'.queries[1].raised = last'.raised
        /\ UNCHANGED <<service_objects, application_objects,
                       application_container_objects>>]_vars

C15_Witness ==
  /\ last.call.op = "application" /\ last.raised \in XapiErrors
  /\ Len(last.queries) = 1
  /\ DOMAIN application_container_objects # {}
  /\ DOMAIN service_objects # {}

\* C16: a refreshall() in which the bulk services query raises leaves the
\* three dicts empty; one in which the bulk applications query raises leaves
\* the service dict equal to the bulk services <result> and the two
\* application dicts empty.  What was cached before is not put back.
C16_RefreshallNotAtomic ==
  [][(last'.call.op = "refreshall" /\ last'.raised # NoError) =>
       /\ application_objects' = EmptyDict
       /\ application_container_objects' = EmptyDict
       /\ IF last'.queries[1].raised # NoError
            THEN /\ Len(last'.queries) = 1
                 /\ last'.queries[1].xpath = ALL_SERVICE_XPATH
                 /\ service_objects' = EmptyDict
            ELSE /\ Len(last'.queries) = 2
                 /\ last'.queries[1].xpath = ALL_SERVICE_XPATH
                 /\ last'.queries[2].xpath = ALL_APPLICATION_XPATH
                 /\ last'.queries[2].raised = last'.raised
                 /\ service_objects'
                      = DictOf(last'.queries[1].elm, FALSE, "ServiceObject")]_vars

C16_Witness ==
  /\ last.call.op = "refreshall" /\ last.raised \in XapiErrors
  /\ Len(last.queries) = 2
  /\ service_objects # EmptyDict
  /\ last.dropped # {}

\* C17 as stated: no name is a key of both the application dict and the
\* container dict.
C17_ApplicationContainerDisjoint ==
  DOMAIN application_objects \cap DOMAIN application_container_objects = {}

\* The single lookup `rec` is called with refresh_if_none=True and the
\* transport answers.
Refreshing(rec) ==
  /\ rec.call.op \in {"application", "service"}
  /\ rec.call.refresh_if_none
  /\ rec.device.raised = NoError
  /\ \A q \in Queries(rec) : q.raised = NoError

\* C18: application(name, refresh_if_none=True, include_containers=False)
\* for a name the device has only as a container issues one query and
\* returns None, whether or not the container is cached already, and leaves
\* the name out of the application dict, so that the next such call does the
\* same.  A lookup with refresh_if_none=True that misses the dicts and is
\* answered with zero matches issues one query, returns None and changes
\* nothing.
C18_NoNegativeCaching ==
  [][/\ (/\ Refreshing(last')
         /\ last'.call.op = "application" /\ ~last'.call.include_containers
         /\ last'.call.name \notin DOMAIN application_objects
         /\ Held(last', TRUE) /\ ~Held(last', FALSE))
        => /\ Len(last'.queries) = 1
           /\ last'.raised = NoError
           /\ last'.ret = None
           /\ last'.call.name \notin DOMAIN application_objects'
           /\ last'.call.name \in DOMAIN application_container_objects'
     /\ (/\ Refreshing(last')
         /\ Hit(last'.call) = None
         /\ last'.device.elm = <<>>)
        => /\ Len(last'.queries) = 1
           /\ last'.raised = NoError
           /\ last'.ret = None
           /\ UNCHANGED <<service_objects, application_objects,
                          application_container_objects>>]_vars

C18_Witness ==
  /\ last.call.op = "application"
  /\ last.call.refresh_if_none /\ ~last.call.include_containers
  /\ Len(hist) >= 2
  /\ \A i \in {Len(hist) - 1, Len(hist)} :
       hist[i].nq = 1 /\ hist[i].had /\ hist[i].ret = None /\ hist[i].raised = NoError
  /\ Held(last, TRUE) /\ ~Held(last, FALSE)
  /\ last.call.name \in DOMAIN application_container_objects
  /\ last.call.name \notin DOMAIN application_objects

\* C19: refresh_service, refreshall_services, service and services leave the
\* application dict and the container dict as they were;
\* refresh_application, refreshall_applications, application and
\* applications leave the service dict as it was.
C19_SidesIndependent ==
  [][/\ (last'.call.op \in {"refresh_service", "refreshall_services", "service",
                              "services"})
        => UNCHANGED <<application_objects, application_container_objects>>
     /\ (last'.call.op \in {"refresh_application", "refreshall_applications",
                              "application", "applications"})
        => UNCHANGED service_objects]_vars

C19_Witness ==
  /\ last.call.op = "services" /\ last.raised = NoError
  /\ Len(last.queries) = 2
  /\ \A i \in 1..2 : last.queries[i].elm # <<>>
  /\ DOMAIN application_objects # {}
  /\ DOMAIN application_container_objects # {}

\* The statements of refreshall() in the order of lines 167-173.
RefreshallOrder ==
  <<"clear application_objects", "clear application_container_objects",
    "clear service_objects", "query service", "parsed service",
    "query application", "parsed application">>

IsPrefix(s, t) == Len(s) <= Len(t) /\ \A i \in DOMAIN s : s[i] = t[i]

\* C11: a refreshall() clears the three dicts before it issues a query, then
\* issues the bulk services query and stores its <result>, and only then
\* issues the bulk applications query; whatever other tasks do meanwhile.
C11_RefreshallOrder ==
  \A t \in Tasks :
    tasks[t].op = "refreshall" =>
      /\ IsPrefix(tasks[t].log, RefreshallOrder)
      /\ Len(tasks[t].queries) <= 2
      /\ \A i \in DOMAIN tasks[t].queries :
           tasks[t].queries[i].xpath
             = (IF i = 1 THEN ALL_SERVICE_XPATH ELSE ALL_APPLICATION_XPATH)
      /\ (tasks[t].pc = Idle /\ tasks[t].raised = NoError) =>
           tasks[t].log = RefreshallOrder
      /\ (tasks[t].pc = "parse" /\ tasks[t].tree = "service") =>
           Len(tasks[t].queries) = 1

C11_Witness ==
  \E t \in Tasks :
    /\ tasks[t].op = "refreshall" /\ tasks[t].pc = Idle
    /\ tasks[t].log = RefreshallOrder
    /\ \A i \in 1..2 : tasks[t].queries[i].elm # <<>>

\* The objects of class cls that task t's call fetched for the name: the
\* entries of that name, with (fn) or without a <functions> child, in the
\* answers to its queries of the subtree.
Fetched(t, tree, fn, cls, name) ==
  {[cls |-> cls, name |-> e.name, body |-> e.body] :
     e \in {x \in UNION {Elements(q.elm) :
                            q \in {y \in Queries(tasks[t]) : y.xpath.tree = tree}} :
              x.name = name /\ x.functions = fn}}

\* The entry of a dict for the name is the one object that the call which
\* wrote it last fetched, as long as that call is the task's latest.
LastWriteWins(dict, stamps, tree, fn, cls) ==
  /\ DOMAIN stamps = DOMAIN dict
  /\ \A n \in DOMAIN dict :
       tasks[stamps[n].task].calls = stamps[n].calls =>
         /\ dict[n] \in Fetched(stamps[n].task, tree, fn, cls, n)
         /\ Cardinality(Fetched(stamps[n].task, tree, fn, cls, n)) = 1

\* C14: when tasks interleave their calls, every entry of the three dicts is
\* the object fetched by the task that wrote the entry last; no interleaving
\* leaves a name mapped to anything else.
C14_LastWriteWins ==
  /\ LastWriteWins(service_objects, writer.service_objects, "service", FALSE,
                   "ServiceObject")
  /\ LastWriteWins(application_objects, writer.application_objects, "application", FALSE,
                   "ApplicationObject")
  /\ LastWriteWins(application_container_objects, writer.application_container_objects,
                   "application", TRUE, "ApplicationContainer")

\* Two tasks called service("a") while "a" was not cached, both issued the
\* query, and were answered with different revisions.
C14_Witness ==
  /\ \A t \in Tasks :
       /\ tasks[t].op = "service" /\ tasks[t].name = "a" /\ tasks[t].pc = Idle
       /\ Len(tasks[t].queries) = 1 /\ Len(tasks[t].queries[1].elm) = 1
       /\ tasks[t].ret # None
  /\ tasks["t1"].queries[1].elm # tasks["t2"].queries[1].elm
  /\ "a" \in DOMAIN service_objects
  /\ service_objects["a"]
       \in Fetched(writer.service_objects["a"].task, "service", FALSE, "ServiceObject", "a")

====
